---- MODULE Spec2Model ----
(***************************************************************************)
(* Card manager and duel simulator (Py1, version 0.2): the collection of   *)
(* Card objects kept by CardManager, the menu operations that change it,   *)
(* and the round loop of simulate_battle.                                  *)
(*                                                                         *)
(* Representation.  Card objects live in a heap and the collection, and    *)
(* the locals c1 / c2 of simulate_battle, hold references into it, as in   *)
(* Python.  Every stat (hp, attack, defense, score, power, damage) is held *)
(* in half-units: the number n of the program is the integer Unit * n, so  *)
(* that attack * 1.5 and attack * 0.5 stay exact.  Indices and the round   *)
(* counter are plain integers.  Element names are transliterated:          *)
(* fire, water, wood, electric, ice, earth, rock, bug, beast, dragon,      *)
(* mystic, light, dark for the thirteen keys of element_relations.         *)
(***************************************************************************)
EXTENDS Integers, Sequences, FiniteSets, TLC

VARIABLES heap, cards, pc, result, c1, c2, round_num, log, verdict

vars == <<heap, cards, pc, result, c1, c2, round_num, log, verdict>>

-----------------------------------------------------------------------------
(* Numbers *)

Unit == 2

Fix(n) == Unit * n

Max(a, b) == IF a >= b THEN a ELSE b

RoundCap == 20

VerdictCap == 20

MaxLines == 2

-----------------------------------------------------------------------------
(* Input: what the user types at a prompt *)

Names == {"a", "b"}

IntValue ==
    ("0" :> 0) @@ ("1" :> 1) @@ ("2" :> 2) @@ ("3" :> 3) @@ ("5" :> 5)
    @@ ("10" :> 10) @@ ("25" :> 25) @@ ("50" :> 50) @@ (" 5 " :> 5)
    @@ ("-5" :> -5)

IsIntLiteral(s) == s \in DOMAIN IntValue

HpInputs == {"50", "25", "abc"}

AttackInputs == {"10", "abc"}

DefenseInputs == {" 5 ", "abc"}

ElementInputs == {"water", "fire"}

RarityInputs == {"R"}

IndexInputs == {"0", "1", "2", "3", "x"}

YesNoInputs == {"Y", "n"}

Lower(s) == IF s = "Y" THEN "y" ELSE s

-----------------------------------------------------------------------------
(* Card objects and the heap *)

NoObj == [free |-> TRUE]

NoRef == 0

Addr == 1 .. (Cardinality(Names) + 2)

Card(name, hp, attack, defense, element, rarity) ==
    [name |-> name, hp |-> hp, attack |-> attack, defense |-> defense,
     element |-> element, rarity |-> rarity,
     score |-> hp + 4 * attack + 4 * defense]

FreeAddr(h) == CHOOSE a \in Addr : h[a] = NoObj /\ \A b \in Addr : h[b] = NoObj => a <= b

\* the objects of the list, in list order
Contents(h, cs) == [i \in 1 .. Len(cs) |-> h[cs[i]]]

\* objects no longer referenced by the list are reclaimed when a handler
\* returns; addresses are not observable, so the list's objects are kept
\* at addresses 1 .. len(cards)
Collect(h, cs) ==
    [heap |-> [a \in Addr |-> IF a <= Len(cs) THEN h[cs[a]] ELSE NoObj],
     cards |-> [i \in 1 .. Len(cs) |-> i]]

-----------------------------------------------------------------------------
(* Element table and attack power *)

element_relations ==
    [fire     |-> [beats |-> {"wood", "ice", "beast"}, loses_to |-> {"water", "rock"}],
     water    |-> [beats |-> {"fire"},                 loses_to |-> {"electric"}],
     wood     |-> [beats |-> {"electric", "earth"},    loses_to |-> {"fire"}],
     electric |-> [beats |-> {"water"},                loses_to |-> {"wood", "light"}],
     ice      |-> [beats |-> {"dragon"},               loses_to |-> {"fire", "mystic"}],
     earth    |-> [beats |-> {"fire"},                 loses_to |-> {"water", "wood"}],
     rock     |-> [beats |-> {"electric", "bug"},      loses_to |-> {"water", "wood", "mystic"}],
     bug      |-> [beats |-> {"wood"},                 loses_to |-> {"dragon"}],
     beast    |-> [beats |-> {"water", "bug"},         loses_to |-> {"fire", "electric"}],
     dragon   |-> [beats |-> {"dragon"},               loses_to |-> {"dragon", "mystic"}],
     mystic   |-> [beats |-> {"ice"},                  loses_to |-> {"dark"}],
     light    |-> [beats |-> {"dark"},                 loses_to |-> {"mystic"}],
     dark     |-> [beats |-> {"mystic"},               loses_to |-> {"light"}]]

Relations(e) ==
    IF e \in DOMAIN element_relations
    THEN element_relations[e]
    ELSE [beats |-> {}, loses_to |-> {}]

calculate_attack_NoElement(attacker, defender) == attacker.attack

\* the defender's entry is consulted as well as the attacker's
calculate_attack_Symmetric(attacker, defender) ==
    IF \/ defender.element \in Relations(attacker.element).beats
       \/ attacker.element \in Relations(defender.element).loses_to
    THEN (attacker.attack * 3) \div 2
    ELSE IF \/ defender.element \in Relations(attacker.element).loses_to
            \/ attacker.element \in Relations(defender.element).beats
         THEN attacker.attack \div 2
         ELSE attacker.attack

\* the loses_to list is tested before the beats list
calculate_attack_LosesFirst(attacker, defender) ==
    IF defender.element \in Relations(attacker.element).loses_to
    THEN attacker.attack \div 2
    ELSE IF defender.element \in Relations(attacker.element).beats
         THEN (attacker.attack * 3) \div 2
         ELSE attacker.attack

\* attacker.attack * 1.5, attacker.attack * 0.5, or attacker.attack
calculate_attack(attacker, defender) ==
    IF defender.element \in Relations(attacker.element).beats
    THEN (attacker.attack * 3) \div 2
    ELSE IF defender.element \in Relations(attacker.element).loses_to
         THEN attacker.attack \div 2
         ELSE attacker.attack

\* the difference is cut to a whole number
Damage_Truncated(power, defense) ==
    IF power > defense THEN Max(Fix(1), Fix((power - defense) \div Unit)) ELSE Fix(1)

Damage_NoFloor(power, defense) ==
    IF power > defense THEN power - defense ELSE Fix(1)

\* max(1, power - defense) if power > defense else 1
Damage(power, defense) ==
    IF power > defense THEN Max(Fix(1), power - defense) ELSE Fix(1)

-----------------------------------------------------------------------------
(* simulate_battle *)

Snapshot_Alias(h, src) == [ref |-> src, heap |-> h]

\* the copy made at the start of a duel: a new Card object
Snapshot(h, src) ==
    LET a == FreeAddr(h)
    IN  [ref |-> a,
         heap |-> [h EXCEPT ![a] = Card(h[src].name, h[src].hp, h[src].attack,
                                        h[src].defense, h[src].element, h[src].rarity)]]

LoopCond_NoCap(h, r1, r2, rn) == h[r1].hp > 0 /\ h[r2].hp > 0

LoopCond(h, r1, r2, rn) == h[r1].hp > 0 /\ h[r2].hp > 0 /\ rn <= RoundCap

\* the first card strikes first and a card struck down does not strike back
ApplyRound_Initiative(h, r1, r2, damage1, damage2) ==
    LET h1 == [h  EXCEPT ![r2].hp = Max(0, h[r2].hp - damage1)]
    IN  IF h1[r2].hp <= 0 THEN h1
        ELSE [h1 EXCEPT ![r1].hp = Max(0, h1[r1].hp - damage2)]

\* a card that is hit also loses attack
ApplyRound_Weaken(h, r1, r2, damage1, damage2) ==
    LET h1 == [h  EXCEPT ![r2].hp = Max(0, h[r2].hp - damage1),
                         ![r2].attack = Max(0, h[r2].attack - damage1)]
    IN  [h1 EXCEPT ![r1].hp = Max(0, h1[r1].hp - damage2),
                   ![r1].attack = Max(0, h1[r1].attack - damage2)]

ApplyRound_NoClamp(h, r1, r2, damage1, damage2) ==
    LET h1 == [h  EXCEPT ![r2].hp = h[r2].hp - damage1]
    IN  [h1 EXCEPT ![r1].hp = h1[r1].hp - damage2]

\* the four hp assignments of one round, in program order
ApplyRound(h, r1, r2, damage1, damage2) ==
    LET h1 == [h  EXCEPT ![r2].hp = h[r2].hp - damage1]
        h2 == [h1 EXCEPT ![r1].hp = h1[r1].hp - damage2]
        h3 == [h2 EXCEPT ![r1].hp = Max(0, h2[r1].hp)]
        h4 == [h3 EXCEPT ![r2].hp = Max(0, h3[r2].hp)]
    IN  h4

\* at the cap the first card wins unless the second has more hp
Judge_FirstWinsTies(hp1, hp2, rn) ==
    IF rn >= VerdictCap
    THEN IF hp1 <= 0 /\ hp2 <= 0 THEN "draw"
         ELSE IF hp1 >= hp2 THEN "c1" ELSE "c2"
    ELSE IF hp1 <= 0 /\ hp2 <= 0 THEN "draw"
         ELSE IF hp1 <= 0 THEN "c2" ELSE "c1"

\* a duel that used up its rounds is a draw
Judge_CapIsDraw(hp1, hp2, rn) ==
    IF rn >= VerdictCap THEN "draw"
    ELSE IF hp1 <= 0 /\ hp2 <= 0 THEN "draw"
         ELSE IF hp1 <= 0 THEN "c2" ELSE "c1"

Judge_NoCapBranch(hp1, hp2, rn) ==
    IF hp1 <= 0 /\ hp2 <= 0 THEN "draw"
    ELSE IF hp1 <= 0 THEN "c2" ELSE "c1"

Judge(hp1, hp2, rn) ==
    IF rn >= VerdictCap
    THEN IF (hp1 <= 0 /\ hp2 <= 0) \/ hp1 = hp2 THEN "draw"
         ELSE IF hp1 > hp2 THEN "c1" ELSE "c2"
    ELSE IF hp1 <= 0 /\ hp2 <= 0 THEN "draw"
         ELSE IF hp1 <= 0 THEN "c2" ELSE "c1"

InRange_NoLowerBound(index, n) == index < n

\* not (index < 0 or index >= len(self.cards))
InRange(index, n) == ~(index < 0 \/ index >= n)

\* self.cards[index]: a negative index counts from the end of the list
ListItem(cs, index) == IF index >= 0 THEN cs[index + 1] ELSE cs[Len(cs) + index + 1]

\* the loop and the verdict as one function of the two snapshots, which
\* are the objects 1 and 2 of h
RECURSIVE duel_rounds(_, _, _)
duel_rounds(h, rn, lg) ==
    IF LoopCond(h, 1, 2, rn)
    THEN LET attack1 == calculate_attack(h[1], h[2])
             attack2 == calculate_attack(h[2], h[1])
             damage1 == Damage(attack1, h[2].defense)
             damage2 == Damage(attack2, h[1].defense)
             after == ApplyRound(h, 1, 2, damage1, damage2)
         IN  duel_rounds(after, rn + 1,
                         Append(lg, [round_number |-> rn,
                                     power1 |-> attack1, power2 |-> attack2,
                                     damage1 |-> damage1, damage2 |-> damage2,
                                     hp1 |-> after[1].hp, hp2 |-> after[2].hp]))
    ELSE [log |-> lg, verdict |-> Judge(h[1].hp, h[2].hp, rn)]

\* the duel of card1 against card2: round records and verdict
duel(card1, card2) ==
    duel_rounds(<<Card(card1.name, card1.hp, card1.attack, card1.defense,
                       card1.element, card1.rarity),
                  Card(card2.name, card2.hp, card2.attack, card2.defense,
                       card2.element, card2.rarity)>>, 1, <<>>)

ClearBattle ==
    /\ c1' = NoRef
    /\ c2' = NoRef
    /\ round_num' = 0
    /\ log' = <<>>
    /\ verdict' = "none"

BattleStart(in1, in2) ==
    /\ pc = "menu"
    /\ IF Len(cards) < 2
       THEN /\ result' = "too_few_cards"
            /\ pc' = "menu"
            /\ UNCHANGED <<heap, cards>>
            /\ ClearBattle
       ELSE IF ~IsIntLiteral(in1) \/ ~IsIntLiteral(in2)
       THEN /\ result' = "not_a_number"
            /\ pc' = "menu"
            /\ UNCHANGED <<heap, cards>>
            /\ ClearBattle
       ELSE LET index1 == IntValue[in1] - 1
                index2 == IntValue[in2] - 1
            IN  IF ~InRange(index1, Len(cards)) \/ ~InRange(index2, Len(cards))
                THEN /\ result' = "invalid_index"
                     /\ pc' = "menu"
                     /\ UNCHANGED <<heap, cards>>
                     /\ ClearBattle
                ELSE LET s1 == Snapshot(heap, ListItem(cards, index1))
                         s2 == Snapshot(s1.heap, ListItem(cards, index2))
                     IN  /\ heap' = s2.heap
                         /\ c1' = s1.ref
                         /\ c2' = s2.ref
                         /\ round_num' = 1
                         /\ log' = <<>>
                         /\ verdict' = "none"
                         /\ result' = "battle"
                         /\ pc' = "battle"
                         /\ UNCHANGED cards

BattleRound ==
    /\ pc = "battle"
    /\ LoopCond(heap, c1, c2, round_num)
    /\ LET attack1 == calculate_attack(heap[c1], heap[c2])
           attack2 == calculate_attack(heap[c2], heap[c1])
           damage1 == Damage(attack1, heap[c2].defense)
           damage2 == Damage(attack2, heap[c1].defense)
           h == ApplyRound(heap, c1, c2, damage1, damage2)
       IN  /\ heap' = h
           /\ log' = Append(log, [round_number |-> round_num,
                                  power1 |-> attack1, power2 |-> attack2,
                                  damage1 |-> damage1, damage2 |-> damage2,
                                  hp1 |-> h[c1].hp, hp2 |-> h[c2].hp])
    /\ round_num' = round_num + 1
    /\ UNCHANGED <<cards, pc, result, c1, c2, verdict>>

BattleVerdict ==
    /\ pc = "battle"
    /\ ~LoopCond(heap, c1, c2, round_num)
    /\ verdict' = Judge(heap[c1].hp, heap[c2].hp, round_num)
    /\ pc' = "judged"
    /\ UNCHANGED <<heap, cards, result, c1, c2, round_num, log>>

\* simulate_battle returns to the menu loop; its locals are dropped
BattleReturn ==
    /\ pc = "judged"
    /\ pc' = "menu"
    /\ result' = "battle_over"
    /\ heap' = Collect(heap, cards).heap
    /\ cards' = Collect(heap, cards).cards
    /\ ClearBattle

-----------------------------------------------------------------------------
(* Collection operations *)

\* 1-based position of the first card with the name, 0 when there is none
find_card_by_name(h, cs, name) ==
    IF \E i \in 1 .. Len(cs) : h[cs[i]].name = name
    THEN CHOOSE i \in 1 .. Len(cs) :
             /\ h[cs[i]].name = name
             /\ \A j \in 1 .. Len(cs) : h[cs[j]].name = name => i <= j
    ELSE 0

\* the new card is always appended, as in version 0.1
Upsert_Append(h, cs, new_card) ==
    LET a == FreeAddr(h)
    IN  Collect([h EXCEPT ![a] = new_card], Append(cs, a))

\* self.cards[index] = new_card, or self.cards.append(new_card)
Upsert(h, cs, new_card) ==
    LET index == find_card_by_name(h, cs, new_card.name)
        a == FreeAddr(h)
        h1 == [h EXCEPT ![a] = new_card]
    IN  IF index # 0
        THEN Collect(h1, [cs EXCEPT ![index] = a])
        ELSE Collect(h1, Append(cs, a))

Crash(exception) ==
    /\ pc' = "crashed"
    /\ result' = exception

Done(message) ==
    /\ pc' = "menu"
    /\ result' = message

CreateCard(name, choice, hp, attack, defense, element, rarity) ==
    /\ pc = "menu"
    /\ LET index == find_card_by_name(heap, cards, name)
       IN  IF index # 0 /\ Lower(choice) # "y"
           THEN /\ Done("cancelled")
                /\ UNCHANGED <<heap, cards>>
           ELSE IF ~IsIntLiteral(hp) \/ ~IsIntLiteral(attack) \/ ~IsIntLiteral(defense)
           THEN /\ Crash("ValueError")
                /\ UNCHANGED <<heap, cards>>
           ELSE LET new_card == Card(name, Fix(IntValue[hp]), Fix(IntValue[attack]),
                                     Fix(IntValue[defense]), element, rarity)
                    after == Upsert(heap, cards, new_card)
                IN  /\ heap' = after.heap
                    /\ cards' = after.cards
                    /\ Done(IF index # 0 THEN "updated" ELSE "created")
    /\ UNCHANGED <<c1, c2, round_num, log, verdict>>

\* lines 96-101: the six assignments in program order; int() raises on a
\* non-empty text that is not an integer literal, and the assignments made
\* before it stay
modify_fields(h, a, new_hp, new_attack, new_defense, new_element, new_rarity) ==
    LET okHp == new_hp = "" \/ IsIntLiteral(new_hp)
        okAttack == new_attack = "" \/ IsIntLiteral(new_attack)
        okDefense == new_defense = "" \/ IsIntLiteral(new_defense)
        h1 == IF new_hp # "" /\ okHp
              THEN [h EXCEPT ![a].hp = Fix(IntValue[new_hp])] ELSE h
        h2 == IF new_attack # "" /\ okAttack
              THEN [h1 EXCEPT ![a].attack = Fix(IntValue[new_attack])] ELSE h1
        h3 == IF new_defense # "" /\ okDefense
              THEN [h2 EXCEPT ![a].defense = Fix(IntValue[new_defense])] ELSE h2
        h4 == IF new_element # "" THEN [h3 EXCEPT ![a].element = new_element] ELSE h3
        h5 == IF new_rarity # "" THEN [h4 EXCEPT ![a].rarity = new_rarity] ELSE h4
        h6 == [h5 EXCEPT ![a].score = h5[a].hp + 4 * h5[a].attack + 4 * h5[a].defense]
    IN  IF ~okHp THEN [heap |-> h, raised |-> TRUE]
        ELSE IF ~okAttack THEN [heap |-> h1, raised |-> TRUE]
        ELSE IF ~okDefense THEN [heap |-> h2, raised |-> TRUE]
        ELSE [heap |-> h6, raised |-> FALSE]

ModifyCard(name, new_hp, new_attack, new_defense, new_element, new_rarity) ==
    /\ pc = "menu"
    /\ LET index == find_card_by_name(heap, cards, name)
       IN  IF index = 0
           THEN /\ Done("not_found")
                /\ UNCHANGED heap
           ELSE LET m == modify_fields(heap, cards[index], new_hp, new_attack,
                                       new_defense, new_element, new_rarity)
                IN  /\ heap' = m.heap
                    /\ IF m.raised THEN Crash("ValueError") ELSE Done("modified")
    /\ UNCHANGED <<cards, c1, c2, round_num, log, verdict>>

DeleteCard(name) ==
    /\ pc = "menu"
    /\ LET index == find_card_by_name(heap, cards, name)
       IN  IF index # 0
           THEN LET after == Collect(heap, [i \in 1 .. Len(cards) - 1 |->
                                            IF i < index THEN cards[i] ELSE cards[i + 1]])
                IN  /\ heap' = after.heap
                    /\ cards' = after.cards
                    /\ Done("deleted")
           ELSE /\ Done("not_found")
                /\ UNCHANGED <<heap, cards>>
    /\ UNCHANGED <<c1, c2, round_num, log, verdict>>

-----------------------------------------------------------------------------
(* import_cards: a file is a sequence of lines, a line a sequence of       *)
(* tokens, the token "," being the field separator and " " white space     *)

RECURSIVE Strip(_)
Strip(line) ==
    IF line = <<>> THEN <<>>
    ELSE IF Head(line) = " " THEN Strip(Tail(line))
    ELSE IF line[Len(line)] = " " THEN Strip(SubSeq(line, 1, Len(line) - 1))
    ELSE line

RECURSIVE Split(_)
Split(line) ==
    IF line = <<>> THEN <<"">>
    ELSE IF Head(line) = "," THEN <<"">> \o Split(Tail(line))
    ELSE LET rest == Split(Tail(line))
         IN  <<Head(line) \o Head(rest)>> \o Tail(rest)

LineA == <<"a", ",", "50", ",", "10", ",", "5", ",", "water", ",", "R">>

LineA2 == <<" ", "a", ",", "25", ",", "10", ",", "5", ",", "fire", ",", "R", " ">>

LineB == <<"b", ",", "25", ",", "10", ",", "5", ",", "fire", ",", "R">>

LineShort == <<"b", ",", "50", ",", "10">>

LineBadNumber == <<"b", ",", "50", ",", "abc", ",", "5", ",", "water", ",", "R">>

LineBlank == <<" ">>

FileLines == {LineA, LineA2, LineB, LineShort, LineBadNumber, LineBlank}

Files == UNION {[1 .. n -> FileLines] : n \in 0 .. MaxLines}

\* a line whose name is already in the collection is passed over
RECURSIVE import_lines_KeepExisting(_, _, _)
import_lines_KeepExisting(h, cs, file) ==
    IF file = <<>> THEN [heap |-> h, cards |-> cs, raised |-> FALSE]
    ELSE LET line == Strip(Head(file))
             data == Split(line)
         IN  IF line = <<>> \/ Len(data) # 6
             THEN import_lines_KeepExisting(h, cs, Tail(file))
             ELSE IF ~IsIntLiteral(data[2]) \/ ~IsIntLiteral(data[3])
                     \/ ~IsIntLiteral(data[4])
             THEN [heap |-> h, cards |-> cs, raised |-> TRUE]
             ELSE IF find_card_by_name(h, cs, data[1]) # 0
             THEN import_lines_KeepExisting(h, cs, Tail(file))
             ELSE LET new_card == Card(data[1], Fix(IntValue[data[2]]),
                                       Fix(IntValue[data[3]]), Fix(IntValue[data[4]]),
                                       data[5], data[6])
                      after == Upsert(h, cs, new_card)
                  IN  import_lines_KeepExisting(after.heap, after.cards, Tail(file))

RECURSIVE import_lines(_, _, _)
import_lines(h, cs, file) ==
    IF file = <<>> THEN [heap |-> h, cards |-> cs, raised |-> FALSE]
    ELSE LET line == Strip(Head(file))
             data == Split(line)
         IN  IF line = <<>> \/ Len(data) # 6
             THEN import_lines(h, cs, Tail(file))
             ELSE IF ~IsIntLiteral(data[2]) \/ ~IsIntLiteral(data[3])
                     \/ ~IsIntLiteral(data[4])
             THEN [heap |-> h, cards |-> cs, raised |-> TRUE]
             ELSE LET new_card == Card(data[1], Fix(IntValue[data[2]]),
                                       Fix(IntValue[data[3]]), Fix(IntValue[data[4]]),
                                       data[5], data[6])
                      after == Upsert(h, cs, new_card)
                  IN  import_lines(after.heap, after.cards, Tail(file))

ImportCards(found, file) ==
    /\ pc = "menu"
    /\ IF ~found
       THEN /\ Done("file_not_found")
            /\ UNCHANGED <<heap, cards>>
       ELSE LET after == import_lines(heap, cards, file)
            IN  /\ heap' = after.heap
                /\ cards' = after.cards
                /\ Done(IF after.raised THEN "import_failed" ELSE "imported")
    /\ UNCHANGED <<c1, c2, round_num, log, verdict>>

-----------------------------------------------------------------------------
(* The operations that leave the collection alone, and the menu loop *)

\* choice '5'
ExportCards ==
    /\ pc = "menu"
    /\ Done("exported")
    /\ UNCHANGED <<heap, cards, c1, c2, round_num, log, verdict>>

SearchCard(name) ==
    /\ pc = "menu"
    /\ Done(IF find_card_by_name(heap, cards, name) # 0 THEN "found" ELSE "not_found")
    /\ UNCHANGED <<heap, cards, c1, c2, round_num, log, verdict>>

\* choice '7'
ListAllCards ==
    /\ pc = "menu"
    /\ Done(IF Len(cards) = 0 THEN "no_cards" ELSE "listed")
    /\ UNCHANGED <<heap, cards, c1, c2, round_num, log, verdict>>

\* choice '8'
ShowElementTable ==
    /\ pc = "menu"
    /\ Done("table")
    /\ UNCHANGED <<heap, cards, c1, c2, round_num, log, verdict>>

\* choice '10' calls manager.battle_royale(), which CardManager does not define
BattleRoyale ==
    /\ pc = "menu"
    /\ Crash("AttributeError")
    /\ UNCHANGED <<heap, cards, c1, c2, round_num, log, verdict>>

\* choice any other text
InvalidChoice ==
    /\ pc = "menu"
    /\ Done("invalid_choice")
    /\ UNCHANGED <<heap, cards, c1, c2, round_num, log, verdict>>

\* choice '0'
Exit ==
    /\ pc = "menu"
    /\ pc' = "exited"
    /\ result' = "bye"
    /\ UNCHANGED <<heap, cards, c1, c2, round_num, log, verdict>>

\* the menu loop of main: one operation per choice typed at the prompt
\* choice '1'
Create ==
    \E name \in Names, yn \in YesNoInputs, hp \in HpInputs, attack \in AttackInputs,
       defense \in DefenseInputs, element \in ElementInputs, rarity \in RarityInputs :
        CreateCard(name, yn, hp, attack, defense, element, rarity)

\* choice '2'
Modify ==
    \E name \in Names, hp \in HpInputs \cup {""}, attack \in AttackInputs \cup {""},
       defense \in DefenseInputs \cup {""}, element \in ElementInputs \cup {""},
       rarity \in RarityInputs \cup {""} :
        ModifyCard(name, hp, attack, defense, element, rarity)

\* choice '3'
Import == \E found \in BOOLEAN, file \in Files : ImportCards(found, file)

\* choice '4'
Delete == \E name \in Names : DeleteCard(name)

\* choice '6'
Search == \E name \in Names : SearchCard(name)

\* choice '9'
SimulateBattle == \E in1 \in IndexInputs, in2 \in IndexInputs : BattleStart(in1, in2)

Init ==
    /\ heap = [a \in Addr |-> NoObj]
    /\ cards = <<>>
    /\ pc = "menu"
    /\ result = "started"
    /\ c1 = NoRef
    /\ c2 = NoRef
    /\ round_num = 0
    /\ log = <<>>
    /\ verdict = "none"

Next ==
    \/ Create
    \/ Modify
    \/ Import
    \/ Delete
    \/ ExportCards
    \/ Search
    \/ ListAllCards
    \/ ShowElementTable
    \/ SimulateBattle
    \/ BattleRoyale
    \/ InvalidChoice
    \/ Exit
    \/ BattleRound
    \/ BattleVerdict
    \/ BattleReturn

Spec == Init /\ [][Next]_vars

-----------------------------------------------------------------------------
(* Duels on their own: the collection holds two cards, created with any    *)
(* stats of the sets below, and the only operation chosen is simulate      *)
(* battle                                                                  *)

DuelHp == {50, 25, 19, 0, -5}

DuelAttack == {10, 5, 1}

DuelDefense == {5, 0}

DuelElements == {"water", "fire", "none"}

DuelInit ==
    /\ \E hpA \in DuelHp, hpB \in DuelHp, attackA \in DuelAttack, attackB \in DuelAttack,
          defenseA \in DuelDefense, defenseB \in DuelDefense,
          elementA \in DuelElements, elementB \in DuelElements :
          heap = [a \in Addr |->
                    IF a = 1 THEN Card("a", Fix(hpA), Fix(attackA), Fix(defenseA), elementA, "R")
                    ELSE IF a = 2 THEN Card("b", Fix(hpB), Fix(attackB), Fix(defenseB), elementB, "R")
                    ELSE NoObj]
    /\ cards = <<1, 2>>
    /\ pc = "menu"
    /\ result = "created"
    /\ c1 = NoRef
    /\ c2 = NoRef
    /\ round_num = 0
    /\ log = <<>>
    /\ verdict = "none"

DuelNext ==
    \/ SimulateBattle
    \/ BattleRound
    \/ BattleVerdict
    \/ BattleReturn

DuelSpec == DuelInit /\ [][DuelNext]_vars

-----------------------------------------------------------------------------
(* The original ruleset, 卡牌管理系统0.1.py: its Card, its element table,   *)
(* its calculate_attack and its simulate_battle                            *)

Card_v01(name, hp, attack, defense, element, rarity) ==
    [name |-> name, hp |-> hp, attack |-> attack, defense |-> defense,
     element |-> element, rarity |-> rarity,
     score |-> hp + 4 * attack + 3 * defense]

\* a value of the table is a string, or the empty list for earth
Str(s) == [kind |-> "str", value |-> s]

EmptyList == [kind |-> "list"]

None == [kind |-> "none"]

element_relations_v01 ==
    [fire     |-> [beats |-> Str("wood"),     loses_to |-> Str("water")],
     water    |-> [beats |-> Str("fire"),     loses_to |-> Str("electric")],
     electric |-> [beats |-> Str("water"),    loses_to |-> Str("wood")],
     wood     |-> [beats |-> Str("electric"), loses_to |-> Str("fire")],
     earth    |-> [beats |-> EmptyList,       loses_to |-> EmptyList]]

\* element_relations.get(element, {}) followed by .get(key)
Relation_v01(element, key) ==
    IF element \in DOMAIN element_relations_v01
    THEN element_relations_v01[element][key]
    ELSE None

\* value == element, where element is a string: a list and None equal no
\* string
Equals(value, element) == value.kind = "str" /\ value.value = element

calculate_attack_v01(attacker, defender) ==
    IF Equals(Relation_v01(attacker.element, "beats"), defender.element)
    THEN (attacker.attack * 3) \div 2
    ELSE IF Equals(Relation_v01(attacker.element, "loses_to"), defender.element)
    THEN attacker.attack \div 2
    ELSE attacker.attack

Damage_v01(power, defense) ==
    IF power > defense THEN Max(Fix(1), power - defense) ELSE Fix(1)

Snapshot_v01(h, src) ==
    LET a == FreeAddr(h)
    IN  [ref |-> a,
         heap |-> [h EXCEPT ![a] = Card_v01(h[src].name, h[src].hp, h[src].attack,
                                            h[src].defense, h[src].element,
                                            h[src].rarity)]]

\* the loop goes on while either card is alive
LoopCond_v01_Either(h, r1, r2) == h[r1].hp > 0 \/ h[r2].hp > 0

LoopCond_v01(h, r1, r2) == h[r1].hp > 0 /\ h[r2].hp > 0

ApplyRound_v01(h, r1, r2, damage1, damage2) ==
    LET h1 == [h  EXCEPT ![r2].hp = h[r2].hp - damage1]
        h2 == [h1 EXCEPT ![r1].hp = h1[r1].hp - damage2]
        h3 == [h2 EXCEPT ![r1].hp = Max(0, h2[r1].hp)]
        h4 == [h3 EXCEPT ![r2].hp = Max(0, h3[r2].hp)]
    IN  h4

Judge_v01(hp1, hp2) ==
    IF hp1 <= 0 /\ hp2 <= 0 THEN "draw"
    ELSE IF hp1 <= 0 THEN "c2"
    ELSE "c1"

BattleStart_v01(in1, in2) ==
    /\ pc = "menu"
    /\ IF ~IsIntLiteral(in1) \/ ~IsIntLiteral(in2)
       THEN /\ result' = "not_a_number"
            /\ pc' = "menu"
            /\ UNCHANGED <<heap, cards>>
            /\ ClearBattle
       ELSE LET index1 == IntValue[in1] - 1
                index2 == IntValue[in2] - 1
            IN  IF \/ index1 < 0 \/ index1 >= Len(cards)
                   \/ index2 < 0 \/ index2 >= Len(cards)
                THEN /\ result' = "invalid_index"
                     /\ pc' = "menu"
                     /\ UNCHANGED <<heap, cards>>
                     /\ ClearBattle
                ELSE LET s1 == Snapshot_v01(heap, cards[index1 + 1])
                         s2 == Snapshot_v01(s1.heap, cards[index2 + 1])
                     IN  /\ heap' = s2.heap
                         /\ c1' = s1.ref
                         /\ c2' = s2.ref
                         /\ round_num' = 1
                         /\ log' = <<>>
                         /\ verdict' = "none"
                         /\ result' = "battle"
                         /\ pc' = "battle"
                         /\ UNCHANGED cards

BattleRound_v01 ==
    /\ pc = "battle"
    /\ LoopCond_v01(heap, c1, c2)
    /\ LET attack1 == calculate_attack_v01(heap[c1], heap[c2])
           attack2 == calculate_attack_v01(heap[c2], heap[c1])
           damage1 == Damage_v01(attack1, heap[c2].defense)
           damage2 == Damage_v01(attack2, heap[c1].defense)
           h == ApplyRound_v01(heap, c1, c2, damage1, damage2)
       IN  /\ heap' = h
           /\ log' = Append(log, [round_number |-> round_num,
                                  power1 |-> attack1, power2 |-> attack2,
                                  damage1 |-> damage1, damage2 |-> damage2,
                                  hp1 |-> h[c1].hp, hp2 |-> h[c2].hp])
    /\ round_num' = round_num + 1
    /\ UNCHANGED <<cards, pc, result, c1, c2, verdict>>

BattleVerdict_v01 ==
    /\ pc = "battle"
    /\ ~LoopCond_v01(heap, c1, c2)
    /\ verdict' = Judge_v01(heap[c1].hp, heap[c2].hp)
    /\ pc' = "judged"
    /\ UNCHANGED <<heap, cards, result, c1, c2, round_num, log>>

BattleReturn_v01 ==
    /\ pc = "judged"
    /\ pc' = "menu"
    /\ result' = "battle_over"
    /\ heap' = Collect(heap, cards).heap
    /\ cards' = Collect(heap, cards).cards
    /\ ClearBattle

SimulateBattle_v01 ==
    \E in1 \in IndexInputs, in2 \in IndexInputs : BattleStart_v01(in1, in2)

\* two cards created with any integer stats of the sets below
Hp_v01 == {25, 2, 0, -1}

Attack_v01 == {3, -1}

Defense_v01 == {0, -1}

Elements_v01 == {"fire", "water", "earth"}

Init_v01 ==
    /\ \E hpA \in Hp_v01, hpB \in Hp_v01, attackA \in Attack_v01, attackB \in Attack_v01,
          defenseA \in Defense_v01, defenseB \in Defense_v01,
          elementA \in Elements_v01, elementB \in Elements_v01 :
          heap = [a \in Addr |->
                    IF a = 1 THEN Card_v01("a", Fix(hpA), Fix(attackA), Fix(defenseA), elementA, "R")
                    ELSE IF a = 2 THEN Card_v01("b", Fix(hpB), Fix(attackB), Fix(defenseB), elementB, "R")
                    ELSE NoObj]
    /\ cards = <<1, 2>>
    /\ pc = "menu"
    /\ result = "created"
    /\ c1 = NoRef
    /\ c2 = NoRef
    /\ round_num = 0
    /\ log = <<>>
    /\ verdict = "none"

Next_v01 ==
    \/ SimulateBattle_v01
    \/ BattleRound_v01
    \/ BattleVerdict_v01
    \/ BattleReturn_v01

Spec_v01 == Init_v01 /\ [][Next_v01]_vars

\* a duel that has started runs on: the loop body and the statements after
\* the loop are executed as long as they are the next statement
FairSpec_v01 ==
    Spec_v01 /\ WF_vars(BattleRound_v01) /\ WF_vars(BattleVerdict_v01)

-----------------------------------------------------------------------------
(* Duels over the whole element table: two cards of any two elements, the  *)
(* thirteen of the table and one the table does not know                   *)

TableElements == DOMAIN element_relations \cup {"none"}

TableAttack == {10, 5}

TableInit ==
    /\ \E attackA \in TableAttack, attackB \in TableAttack,
          elementA \in TableElements, elementB \in TableElements :
          heap = [a \in Addr |->
                    IF a = 1 THEN Card("a", Fix(25), Fix(attackA), Fix(5), elementA, "R")
                    ELSE IF a = 2 THEN Card("b", Fix(25), Fix(attackB), Fix(5), elementB, "R")
                    ELSE NoObj]
    /\ cards = <<1, 2>>
    /\ pc = "menu"
    /\ result = "created"
    /\ c1 = NoRef
    /\ c2 = NoRef
    /\ round_num = 0
    /\ log = <<>>
    /\ verdict = "none"

TableSpec == TableInit /\ [][DuelNext]_vars

-----------------------------------------------------------------------------
(* Properties of the duel *)

Verdicts == {"draw", "c1", "c2"}

InDuel == pc \in {"battle", "judged"}

\* hp of the collection's card a snapshot was copied from
StartHp(ref) == heap[cards[find_card_by_name(heap, cards, heap[ref].name)]].hp

HpBefore1(i) == IF i = 1 THEN StartHp(c1) ELSE log[i - 1].hp1

HpBefore2(i) == IF i = 1 THEN StartHp(c2) ELSE log[i - 1].hp2

BothLethal(i) == log[i].damage1 >= HpBefore2(i) /\ log[i].damage2 >= HpBefore1(i)

\* C1: a duel runs at most RoundCap (20) rounds, whatever the stats and
\* elements of the two cards, and then reaches exactly one verdict: draw,
\* first card wins, or second card wins
C1_RoundsCappedThenOneVerdict ==
    /\ [](pc = "battle" => /\ Len(log) = round_num - 1
                           /\ Len(log) <= RoundCap
                           /\ verdict = "none")
    /\ [](pc = "battle" => ENABLED (BattleRound \/ BattleVerdict))
    /\ [][(pc = "battle" /\ pc' = "battle") => round_num' = round_num + 1]_vars
    /\ [][pc = "battle" => pc' \in {"battle", "judged"}]_vars
    /\ [](pc = "judged" => Len(log) <= RoundCap /\ verdict \in Verdicts)

C1_Witness == pc = "judged" /\ Len(log) = RoundCap /\ verdict \in Verdicts

\* C2: a round in which each side's damage is at least the other's hp
\* before the round applies both attacks: both hp are 0 after it, and the
\* verdict of that duel is a draw
C2_Simultaneity ==
    InDuel =>
        \A i \in 1 .. Len(log) :
            BothLethal(i) => /\ log[i].hp1 = 0
                             /\ log[i].hp2 = 0
                             /\ heap[c1].hp = 0
                             /\ heap[c2].hp = 0
                             /\ (pc = "judged" => verdict = "draw")

C2_Witness ==
    /\ pc = "judged"
    /\ Len(log) >= 1
    /\ BothLethal(Len(log))
    /\ verdict = "draw"

\* C3: when the loop stops after round 20 with both hp above 0, equal hp
\* is a draw, otherwise the card with the strictly higher hp wins
C3_CapTieBreak ==
    (pc = "judged" /\ Len(log) = RoundCap /\ heap[c1].hp > 0 /\ heap[c2].hp > 0) =>
        verdict = IF heap[c1].hp = heap[c2].hp THEN "draw"
                  ELSE IF heap[c1].hp > heap[c2].hp THEN "c1" ELSE "c2"

C3_Witness ==
    /\ pc = "judged"
    /\ Len(log) = RoundCap
    /\ heap[c1].hp > 0
    /\ heap[c2].hp = heap[c1].hp
    /\ verdict = "draw"

\* C4: in every executed round each side deals at least 1 damage, and
\* exactly 1 when its element-adjusted power is at most the defender's
\* defense
C4_DamageFloor ==
    InDuel =>
        \A i \in 1 .. Len(log) :
            /\ log[i].damage1 >= Fix(1)
            /\ log[i].damage2 >= Fix(1)
            /\ (log[i].power1 <= heap[c2].defense => log[i].damage1 = Fix(1))
            /\ (log[i].power2 <= heap[c1].defense => log[i].damage2 = Fix(1))

C4_Witness ==
    /\ InDuel
    /\ Len(log) >= 1
    /\ log[1].power1 <= heap[c2].defense
    /\ log[1].damage1 = Fix(1)
    /\ log[1].power2 > heap[c1].defense
    /\ log[1].power2 - heap[c1].defense < Fix(1)

\* C5: after every executed round both hp are at least 0 (an overkill
\* leaves exactly 0) and each hp is strictly lower than before the round
C5_HpClampedAndDecreasing ==
    InDuel =>
        \A i \in 1 .. Len(log) :
            /\ log[i].hp1 >= 0
            /\ log[i].hp2 >= 0
            /\ log[i].hp1 < HpBefore1(i)
            /\ log[i].hp2 < HpBefore2(i)
            /\ (HpBefore1(i) - log[i].damage2 <= 0 => log[i].hp1 = 0)
            /\ (HpBefore2(i) - log[i].damage1 <= 0 => log[i].hp2 = 0)
            /\ (i = Len(log) => heap[c1].hp = log[i].hp1 /\ heap[c2].hp = log[i].hp2)

C5_Witness ==
    /\ InDuel
    /\ Len(log) >= 2
    /\ HpBefore2(Len(log)) - log[Len(log)].damage1 < 0
    /\ log[Len(log)].hp2 = 0

\* C6: water card A (hp 50, attack 10, defense 5) against fire card B
\* (hp 50, attack 10, defense 5): round 1 has power 15 and 5, damage 10
\* and 1, and leaves hp A = 49, B = 40
IsScenario(ref, element) ==
    /\ StartHp(ref) = Fix(50)
    /\ heap[ref].attack = Fix(10)
    /\ heap[ref].defense = Fix(5)
    /\ heap[ref].element = element

C6_Scenario ==
    (InDuel /\ IsScenario(c1, "water") /\ IsScenario(c2, "fire") /\ Len(log) >= 1) =>
        log[1] = [round_number |-> 1,
                  power1 |-> Fix(15), power2 |-> Fix(5),
                  damage1 |-> Fix(10), damage2 |-> Fix(1),
                  hp1 |-> Fix(49), hp2 |-> Fix(40)]

C6_Witness ==
    /\ pc = "battle"
    /\ IsScenario(c1, "water")
    /\ IsScenario(c2, "fire")
    /\ Len(log) = 1
    /\ heap[c1].hp = Fix(49)
    /\ heap[c2].hp = Fix(40)

Range(f) == {f[x] : x \in DOMAIN f}

\* C7: a duel changes no field of any card of the collection, and the two
\* combatants are two objects of their own, distinct from each other and
\* from the collection's cards even when one index is chosen twice, so
\* each loses exactly the damage dealt to it
C7_SnapshotIsolation ==
    /\ [](InDuel => /\ c1 # c2
                    /\ c1 \notin Range(cards)
                    /\ c2 \notin Range(cards))
    /\ [][Contents(heap', cards') = Contents(heap, cards)]_vars
    /\ [][(pc = "battle" /\ pc' = "battle") =>
            /\ heap'[c1].hp = Max(0, heap[c1].hp - log'[Len(log')].damage2)
            /\ heap'[c2].hp = Max(0, heap[c2].hp - log'[Len(log')].damage1)]_vars

C7_Witness ==
    /\ pc = "battle"
    /\ heap[c1].name = heap[c2].name
    /\ Len(log) >= 1
    /\ heap[c1].hp < StartHp(c1)

-----------------------------------------------------------------------------
(* Properties of the menu loop and the collection operations *)

\* C8: no input is fatal: whatever is typed, the program is back at the
\* menu after the operation, and it ends only through choice '0'
C8_NoInputIsFatal ==
    /\ pc # "crashed"
    /\ (pc = "exited" => result = "bye")

\* C9: when create_card or modify_card meets a non-numeric hp, attack or
\* defense, the operation stops and every card of the collection has the
\* fields it had before the operation
C9_BadNumberLeavesCardsAlone ==
    [][(pc = "menu" /\ result' = "ValueError") =>
           Contents(heap', cards') = Contents(heap, cards)]_vars

\* C10: after any sequence of operations, those stopped by bad input
\* included, every card of the collection has
\* score = hp + 4 * attack + 4 * defense
C10_ScoreConsistent ==
    \A i \in 1 .. Len(cards) :
        heap[cards[i]].score =
            heap[cards[i]].hp + 4 * heap[cards[i]].attack + 4 * heap[cards[i]].defense

\* C11: from an empty collection, whatever sequence of create (overwrite
\* accepted or declined), modify, import and delete is run, no two cards
\* of the collection have the same name
C11_NamesUnique ==
    \A i \in 1 .. Len(cards) : \A j \in 1 .. Len(cards) :
        i # j => heap[cards[i]].name # heap[cards[j]].name

C11_Witness ==
    /\ pc = "menu"
    /\ result = "updated"
    /\ Len(cards) = 2
    /\ heap[cards[1]].name # heap[cards[2]].name

\* what a file says, read independently of import_cards
IsBlankLine(line) == \A k \in 1 .. Len(line) : line[k] = " "

FieldsOf(line) == Split(Strip(line))

IsCardLine(line) ==
    /\ ~IsBlankLine(line)
    /\ Len(FieldsOf(line)) = 6
    /\ IsIntLiteral(FieldsOf(line)[2])
    /\ IsIntLiteral(FieldsOf(line)[3])
    /\ IsIntLiteral(FieldsOf(line)[4])

WellFormedFile(file) ==
    \A k \in 1 .. Len(file) : IsBlankLine(file[k]) \/ IsCardLine(file[k])

NameOf(line) == FieldsOf(line)[1]

CardOf(line) ==
    LET hp == Fix(IntValue[FieldsOf(line)[2]])
        attack == Fix(IntValue[FieldsOf(line)[3]])
        defense == Fix(IntValue[FieldsOf(line)[4]])
    IN  [name |-> NameOf(line), hp |-> hp, attack |-> attack, defense |-> defense,
         element |-> FieldsOf(line)[5], rarity |-> FieldsOf(line)[6],
         score |-> hp + 4 * attack + 4 * defense]

\* the last card line of the file that carries the name of line k
LastLineFor(file, k) ==
    file[CHOOSE m \in 1 .. Len(file) :
            /\ IsCardLine(file[m])
            /\ NameOf(file[m]) = NameOf(file[k])
            /\ \A n \in 1 .. Len(file) :
                   (IsCardLine(file[n]) /\ NameOf(file[n]) = NameOf(file[k])) => n <= m]

HasCard(h, cs, card) == \E i \in 1 .. Len(cs) : h[cs[i]] = card

NamesInOrder(h, cs) == [i \in 1 .. Len(cs) |-> h[cs[i]].name]

\* C12: for any collection and any well-formed file, importing the file a
\* second time leaves the number of cards and their order unchanged, and
\* each card named in the file then has the fields of the last line of
\* the file with that name
C12_ImportIdempotent ==
    pc = "menu" =>
        \A file \in Files :
            WellFormedFile(file) =>
                LET first == import_lines(heap, cards, file)
                    second == import_lines(first.heap, first.cards, file)
                IN  /\ ~first.raised
                    /\ ~second.raised
                    /\ Len(second.cards) = Len(first.cards)
                    /\ NamesInOrder(second.heap, second.cards)
                           = NamesInOrder(first.heap, first.cards)
                    /\ \A k \in 1 .. Len(file) :
                           IsCardLine(file[k]) =>
                               HasCard(second.heap, second.cards,
                                       CardOf(LastLineFor(file, k)))

\* reached by an import, and importing a file with two lines for one name
\* again changes nothing
C12_Witness ==
    /\ pc = "menu"
    /\ result = "imported"
    /\ \E file \in Files :
           /\ WellFormedFile(file)
           /\ \E k \in 1 .. Len(file), m \in 1 .. Len(file) :
                  /\ k < m
                  /\ IsCardLine(file[k])
                  /\ IsCardLine(file[m])
                  /\ NameOf(file[k]) = NameOf(file[m])
                  /\ CardOf(file[k]) # CardOf(file[m])
           /\ LET again == import_lines(heap, cards, file)
              IN  Contents(again.heap, again.cards) = Contents(heap, cards)

\* C13: a malformed line (wrong number of fields, or a non-numeric hp,
\* attack or defense) is skipped and the import goes on: every well-formed
\* line of the file, those after the malformed one included, is in the
\* collection afterwards
C13_MalformedLineSkipped ==
    [][\A file \in Files :
           (pc = "menu" /\ ImportCards(TRUE, file)) =>
               \A k \in 1 .. Len(file) :
                   IsCardLine(file[k]) =>
                       HasCard(heap', cards', CardOf(LastLineFor(file, k)))]_vars

Selectable(input) ==
    /\ IsIntLiteral(input)
    /\ IntValue[input] \in 1 .. Len(cards)

Refusals == {"too_few_cards", "not_a_number", "invalid_index"}

\* C14: when the collection holds fewer than two cards, or a selected
\* index is not a number or not in 1 .. len(cards), simulate_battle
\* executes no round, produces no round record and no verdict, and leaves
\* the collection unchanged
C14_NoDuelOnBadSelection ==
    /\ [][\A in1 \in IndexInputs, in2 \in IndexInputs :
              (/\ BattleStart(in1, in2)
               /\ (Len(cards) < 2 \/ ~Selectable(in1) \/ ~Selectable(in2))) =>
                  /\ pc' = "menu"
                  /\ result' \in Refusals
                  /\ round_num' = 0
                  /\ log' = <<>>
                  /\ verdict' = "none"
                  /\ c1' = NoRef
                  /\ c2' = NoRef
                  /\ Contents(heap', cards') = Contents(heap, cards)]_vars
    /\ [](result \in Refusals => pc \in {"menu", "exited", "crashed"})
    /\ [](pc # "battle" /\ pc # "judged" => log = <<>> /\ verdict = "none")

C14_Witness ==
    /\ pc = "menu"
    /\ result = "invalid_index"
    /\ Len(cards) = 2
    /\ log = <<>>
    /\ verdict = "none"

\* C15: whenever the loop ends because an hp reached 0, in any round up
\* to 20, both hp at 0 is a draw and exactly one hp at 0 is a win for the
\* other card, also when the ending round is 19 or 20 and the branch
\* round_num >= 20 is the one that judges
C15_KnockoutVerdict ==
    (pc = "judged" /\ Len(log) >= 1 /\ (heap[c1].hp <= 0 \/ heap[c2].hp <= 0)) =>
        verdict = IF heap[c1].hp <= 0 /\ heap[c2].hp <= 0 THEN "draw"
                  ELSE IF heap[c1].hp <= 0 THEN "c2" ELSE "c1"

C15_Witness ==
    /\ pc = "judged"
    /\ Len(log) = VerdictCap - 1
    /\ round_num >= VerdictCap
    /\ heap[c1].hp > 0
    /\ heap[c2].hp = 0
    /\ verdict = "c1"

C15_WitnessLastRound ==
    /\ pc = "judged"
    /\ Len(log) = RoundCap
    /\ heap[c1].hp = 0
    /\ heap[c2].hp > 0
    /\ verdict = "c2"

\* the attacker has no entry, or the defender is in neither of its lists
NoRelation(attacker_element, defender_element) ==
    \/ attacker_element \notin DOMAIN element_relations
    \/ /\ defender_element \notin element_relations[attacker_element].beats
       /\ defender_element \notin element_relations[attacker_element].loses_to

\* C16: the power is the attacker's base attack (multiplier 1.0) whenever
\* the attacker's element has no entry in the table, for every defender,
\* and whenever the defender's element is in neither list of a known
\* attacker, defenders unknown to the table included
C16_NeutralWithoutRelation ==
    InDuel =>
        \A i \in 1 .. Len(log) :
            /\ NoRelation(heap[c1].element, heap[c2].element)
                   => log[i].power1 = heap[c1].attack
            /\ NoRelation(heap[c2].element, heap[c1].element)
                   => log[i].power2 = heap[c2].attack

C16_Witness ==
    /\ pc = "battle"
    /\ Len(log) = 1
    /\ heap[c1].element = "none"
    /\ heap[c2].element = "dragon"
    /\ log[1].power1 = heap[c1].attack
    /\ log[1].power2 = heap[c2].attack

\* C17: an element against itself gets 1.5 when it lists itself in beats,
\* else 0.5 when it lists itself in loses_to, else 1.0; beats is tested
\* first, so dragon against dragon gets 1.5 and every other element of
\* the table gets 1.0 against itself
C17_SelfMatchup ==
    (InDuel /\ heap[c1].element = heap[c2].element
            /\ heap[c1].element \in DOMAIN element_relations) =>
        \A i \in 1 .. Len(log) :
            LET e == heap[c1].element
                attack == heap[c1].attack
            IN  /\ log[i].power1 =
                       IF e \in element_relations[e].beats THEN (attack * 3) \div 2
                       ELSE IF e \in element_relations[e].loses_to THEN attack \div 2
                       ELSE attack
                /\ (e = "dragon" => Fix(2) * log[i].power1 = Fix(3) * attack)
                /\ (e # "dragon" => log[i].power1 = attack)

C17_Witness ==
    /\ pc = "battle"
    /\ Len(log) = 1
    /\ heap[c1].element = "dragon"
    /\ heap[c2].element = "dragon"
    /\ heap[c1].attack = Fix(5)
    /\ log[1].power1 = 15

IsMultiple(power, attack) ==
    \/ Fix(2) * power = Fix(1) * attack
    \/ Fix(2) * power = Fix(2) * attack
    \/ Fix(2) * power = Fix(3) * attack

\* C18 as stated: in every round, in both directions, the damage is
\* exactly power - defense when power > defense, also when that
\* difference is the half-unit 0.5, and 1 otherwise; the power is the base
\* attack times 0.5, 1.0 or 1.5
C18_DamageIsDifference ==
    InDuel =>
        \A i \in 1 .. Len(log) :
            /\ IsMultiple(log[i].power1, heap[c1].attack)
            /\ IsMultiple(log[i].power2, heap[c2].attack)
            /\ log[i].damage1 = IF log[i].power1 > heap[c2].defense
                                THEN log[i].power1 - heap[c2].defense ELSE Fix(1)
            /\ log[i].damage2 = IF log[i].power2 > heap[c1].defense
                                THEN log[i].power2 - heap[c1].defense ELSE Fix(1)

\* C18 as amended: the damage is power - defense when that difference is
\* at least 1, and 1 otherwise, so a difference of 0.5 gives damage 1
C18_DamageIsDifferenceFlooredAtOne ==
    InDuel =>
        \A i \in 1 .. Len(log) :
            /\ IsMultiple(log[i].power1, heap[c1].attack)
            /\ IsMultiple(log[i].power2, heap[c2].attack)
            /\ log[i].damage1 = IF log[i].power1 - heap[c2].defense >= Fix(1)
                                THEN log[i].power1 - heap[c2].defense ELSE Fix(1)
            /\ log[i].damage2 = IF log[i].power2 - heap[c1].defense >= Fix(1)
                                THEN log[i].power2 - heap[c1].defense ELSE Fix(1)

C18_Witness ==
    /\ InDuel
    /\ Len(log) >= 1
    /\ log[1].power1 > heap[c2].defense
    /\ Unit * (log[1].power1 - heap[c2].defense) = Fix(1)
    /\ log[1].damage1 = Fix(1)
    /\ log[1].power2 - heap[c1].defense > Fix(1)
    /\ log[1].damage2 = log[1].power2 - heap[c1].defense

\* the collection's card a snapshot was copied from
SourceCard(ref) == heap[cards[find_card_by_name(heap, cards, heap[ref].name)]]

SameButHp(x, y) ==
    /\ x.name = y.name
    /\ x.attack = y.attack
    /\ x.defense = y.defense
    /\ x.element = y.element
    /\ x.rarity = y.rarity

\* C19: during a duel only hp changes: in every round each snapshot's
\* attack, defense and element are the values copied at the start, so the
\* power and the damage of each side are the same in every round
C19_OnlyHpChanges ==
    /\ [](InDuel => /\ SameButHp(heap[c1], SourceCard(c1))
                    /\ SameButHp(heap[c2], SourceCard(c2)))
    /\ [][(InDuel /\ InDuel') => /\ SameButHp(heap'[c1], heap[c1])
                                 /\ SameButHp(heap'[c2], heap[c2])]_vars
    /\ [](InDuel => \A i \in 1 .. Len(log) :
                        /\ log[i].round_number = i
                        /\ log[i].power1 = log[1].power1
                        /\ log[i].power2 = log[1].power2
                        /\ log[i].damage1 = log[1].damage1
                        /\ log[i].damage2 = log[1].damage2)

C19_Witness ==
    /\ pc = "battle"
    /\ Len(log) = 3
    /\ log[3].power1 # heap[c1].attack
    /\ log[3].damage1 = log[1].damage1
    /\ log[3].hp2 < log[1].hp2
    /\ SameButHp(heap[c1], SourceCard(c1))

Mirror(record) ==
    [round_number |-> record.round_number,
     power1 |-> record.power2, power2 |-> record.power1,
     damage1 |-> record.damage2, damage2 |-> record.damage1,
     hp1 |-> record.hp2, hp2 |-> record.hp1]

MirrorVerdict(v) == IF v = "c1" THEN "c2" ELSE IF v = "c2" THEN "c1" ELSE v

\* C20: the duel with the two selections swapped has the same number of
\* rounds, the same damage and hp in every round with the sides
\* exchanged, and the mirrored verdict
C20_NoInitiative ==
    pc = "judged" =>
        LET same == duel(SourceCard(c1), SourceCard(c2))
            swapped == duel(SourceCard(c2), SourceCard(c1))
        IN  /\ same.log = log
            /\ same.verdict = verdict
            /\ Len(swapped.log) = Len(log)
            /\ \A i \in 1 .. Len(log) : swapped.log[i] = Mirror(log[i])
            /\ swapped.verdict = MirrorVerdict(verdict)

C20_Witness ==
    /\ pc = "judged"
    /\ Len(log) = RoundCap
    /\ heap[c2].hp > 0
    /\ heap[c1].hp > heap[c2].hp
    /\ log[1].damage1 # log[1].damage2
    /\ verdict = "c1"
    /\ duel(SourceCard(c2), SourceCard(c1)).verdict = "c2"

\* the hp of the list's card that the snapshot ref was copied from
StartHp_v01(ref) ==
    heap[CHOOSE a \in Range(cards) : heap[a].name = heap[ref].name].hp

Min(a, b) == IF a <= b THEN a ELSE b

\* C21: in the original ruleset, which has no round cap, a duel of two
\* cards with integer stats ends: when both start with hp > 0 the loop
\* runs at most min(hp_1, hp_2) rounds, when either starts with hp <= 0 it
\* runs no round, and the verdict is reached
C21_OriginalLoopTerminates ==
    /\ [](InDuel =>
            /\ round_num = Len(log) + 1
            /\ IF StartHp_v01(c1) > 0 /\ StartHp_v01(c2) > 0
               THEN Fix(Len(log)) <= Min(StartHp_v01(c1), StartHp_v01(c2))
               ELSE Len(log) = 0)
    /\ (pc = "battle") ~> (pc = "judged")

\* a duel of 25 rounds, longer than the revised ruleset's cap, that used
\* all the rounds the smaller hp allows
C21_Witness ==
    /\ pc = "judged"
    /\ Len(log) > RoundCap
    /\ Min(StartHp_v01(c1), StartHp_v01(c2)) = Fix(Len(log))
    /\ log[Len(log)].round_number = Len(log)
    /\ verdict = "draw"

\* a duel of no round: the first card starts with no hp
C21_WitnessNoRound ==
    /\ pc = "judged"
    /\ StartHp_v01(c1) <= 0
    /\ StartHp_v01(c2) > 0
    /\ Len(log) = 0
    /\ verdict = "c2"

TypeOK ==
    /\ pc \in {"menu", "battle", "judged", "exited", "crashed"}
    /\ Len(cards) <= Cardinality(Names)

====
